---- MODULE Spec2Model ----
(***************************************************************************)
(* Model of the LSM303D accelerometer driver                               *)
(* (src/apps/drivers/lsm303d/lsm303d.cpp): the report ring, the hrt timer  *)
(* registration and the read()/ioctl() control surface.                    *)
(*                                                                         *)
(* Sizes are counted in units of sizeof(struct accel_report): read()'s     *)
(* `count` is buflen / sizeof(report) and its byte count `ret` is kept as  *)
(* a number of reports.  A report is identified by its timestamp, which    *)
(* hrt_absolute_time() makes unique; 0 stands for memory that no           *)
(* measurement has written.                                                *)
(***************************************************************************)
EXTENDS Integers, Sequences, FiniteSets, TLC

(* ------------------------------ bounds -------------------------------- *)
MaxTime  == 4     \* the clock is capped: at most MaxTime measurement steps
MaxDepth == 3     \* largest small queue depth tried by setQueueDepth
MaxCount == 3     \* largest buffer (in reports) handed to read()
RaceDepth == 2    \* largest queue depth tried when steps interleave
RaceCount == 2    \* largest buffer handed to read() when steps interleave

(* ------------------------- program constants -------------------------- *)
OK      == 0
EAGAIN  == 11
ENOMEM  == 12
EINVAL  == 22
ENOSPC  == 28
EIO     == 5
WHO_I_AM == 73                 \* 0x49
ByteMax  == 255                \* read_reg() returns a uint8_t

SENSOR_POLLRATE_MANUAL   == 1000000
SENSOR_POLLRATE_EXTERNAL == 1000001
SENSOR_POLLRATE_MAX      == 1000002
SENSOR_POLLRATE_DEFAULT  == 1000003
DefaultRateHz   == 250
UsecPerSec      == 1000000
MinInterval     == 1000
InitNumReports  == 2
MaxNumReports   == 100
StartDelay      == 1000

(* ------------------------------ inputs -------------------------------- *)
PollRateArgs == {0, 1, DefaultRateHz, 1000, 1001,
                 SENSOR_POLLRATE_MANUAL, SENSOR_POLLRATE_EXTERNAL,
                 SENSOR_POLLRATE_MAX, SENSOR_POLLRATE_DEFAULT,
                 SENSOR_POLLRATE_DEFAULT + 1}
QueueDepthArgs == (0 .. MaxDepth) \cup {MaxNumReports - 1, MaxNumReports}
ReadCounts == 0 .. MaxCount
RacePollRateArgs == {DefaultRateHz, SENSOR_POLLRATE_MANUAL}
RaceDepthArgs == 0 .. RaceDepth
RaceReadCounts == 1 .. RaceCount
ProbeFirstBytes == {0, WHO_I_AM, ByteMax}
ProbeSecondBytes == 0 .. ByteMax

VARIABLES
    _call,            \* struct hrt_call: [active, delay, period]
    _call_interval,   \* 0 = manual mode, > 0 = period in microseconds
    _num_reports,     \* number of slots of the ring
    _next_report,     \* write cursor
    _oldest_report,   \* read cursor
    _reports,         \* the slots, slot i of the code is _reports[i + 1]
    _accel_topic,     \* the report last handed to orb_publish
    now,              \* hrt_absolute_time()
    npublish,         \* number of orb_publish calls so far
    nnotify,          \* number of poll_notify calls so far
    restart_time,     \* value of the clock at the last start()
    drained,          \* has read() taken a report out of the ring since then
    th,               \* where the calling thread is inside read() or ioctl()
    isr,              \* where the timer callback is inside measure()
    last              \* the operation that ran last, its inputs and results

vars == << _call, _call_interval, _num_reports, _next_report, _oldest_report,
           _reports, _accel_topic, now, npublish, nnotify, restart_time,
           drained, th, isr, last >>

ring == << _num_reports, _next_report, _oldest_report, _reports >>
sched == << _call, _call_interval >>

(* --------------------------- helper macros ---------------------------- *)
\* #define INCREMENT(_x, _lim) do { _x++; if (_x >= _lim) _x = 0; } while(0)
INCREMENT_late_wrap(x, lim) == IF x + 1 > lim THEN 0 ELSE x + 1

INCREMENT(x, lim) == IF x + 1 >= lim THEN 0 ELSE x + 1

NewBuffer(n) == [i \in 1 .. n |-> 0]

NoOp(op, arg) ==
    [op |-> op, arg |-> arg, ret |-> OK, buffer |-> << >>, ok |-> TRUE,
     auto |-> FALSE]

\* the thread is in no driver call; the timer callback is not running
ThreadIdle ==
    [pc |-> "idle", op |-> "none", arg |-> 0, count |-> 0, ret |-> 0,
     buffer |-> << >>, reg |-> 0, src |-> 0, word |-> 0]
IsrIdle == [pc |-> "idle", slot |-> 0]

(* ------------------------------ measure ------------------------------- *)
\* The values measure() leaves behind.  The result of transfer() is not
\* looked at by the code, so the step does the same whether or not the bus
\* exchange worked.
measure(reports, next, oldest, num, t) ==
    LET n1 == INCREMENT(next, num)
    IN  [reports |-> [reports EXCEPT ![next + 1] = t],
         next    |-> n1,
         oldest  |-> IF n1 = oldest THEN INCREMENT(oldest, num) ELSE oldest,
         report  |-> t]

(* ---------------------------- stop / start ---------------------------- *)
\* hrt_cancel(&_call)
stop_not_cancelled(call) == call

stop(call) == [call EXCEPT !.active = FALSE]

\* hrt_call_every(&_call, 1000, _call_interval, measure_trampoline, this)
hrt_call_every(call, delay, interval) ==
    [active |-> TRUE, delay |-> delay, period |-> interval]

start_oldest_not_reset(oldest) == oldest

start_oldest(oldest) == 0
start_next(next) == 0
start_call(call, interval) == hrt_call_every(stop(call), StartDelay, interval)

(* ------------------------------- Init --------------------------------- *)
\* The state LSM303D::init() leaves: two slots, cursors zero, manual mode,
\* nothing registered with the timer, a zeroed report advertised.
Init ==
    /\ _call = [active |-> FALSE, delay |-> 0, period |-> 0]
    /\ _call_interval = 0
    /\ _num_reports = InitNumReports
    /\ _next_report = 0
    /\ _oldest_report = 0
    /\ _reports = NewBuffer(InitNumReports)
    /\ _accel_topic = 0
    /\ now = 0
    /\ npublish = 0
    /\ nnotify = 0
    /\ restart_time = 0
    /\ drained = FALSE
    /\ th = ThreadIdle
    /\ isr = IsrIdle
    /\ last = NoOp("init", 0)

(* ------------------------------- Tick --------------------------------- *)
\* measure_trampoline: the timer calls measure() while the entry is
\* registered.  An entry registered with period 0 is a one-shot: the timer
\* calls it once after the delay and drops it.
Tick(xferOk) ==
    /\ _call.active
    /\ now < MaxTime
    /\ LET m == measure(_reports, _next_report, _oldest_report, _num_reports, now + 1)
       IN  /\ _reports' = m.reports
           /\ _next_report' = m.next
           /\ _oldest_report' = m.oldest
           /\ _accel_topic' = m.report
    /\ now' = now + 1
    /\ npublish' = npublish + 1
    /\ nnotify' = nnotify + 1
    /\ _call' = IF _call.period = 0 THEN stop(_call) ELSE _call
    /\ last' = [NoOp("tick", 0) EXCEPT !.ok = xferOk,
                                       !.auto = (_call_interval > 0)]
    /\ UNCHANGED << _call_interval, _num_reports, restart_time, drained >>

(* ------------------------------- read --------------------------------- *)
\* while (count--) { if (_oldest_report != _next_report) { memcpy(buffer, ...);
\*                   ret += sizeof; INCREMENT(_oldest_report, _num_reports); } }
\* The destination of every memcpy is `buffer` itself: the pointer is never
\* advanced, so each copy lands in the first report of the caller's buffer.
RECURSIVE read_loop_copies_when_empty(_, _, _, _, _, _, _)
read_loop_copies_when_empty(count, oldest, next, num, reports, buffer, ret) ==
    IF count = 0
    THEN [oldest |-> oldest, buffer |-> buffer, ret |-> ret]
    ELSE read_loop_copies_when_empty(count - 1, INCREMENT(oldest, num), next,
                                     num, reports,
                                     [buffer EXCEPT ![1] = reports[oldest + 1]],
                                     ret + 1)

RECURSIVE read_loop(_, _, _, _, _, _, _)
read_loop(count, oldest, next, num, reports, buffer, ret) ==
    IF count = 0
    THEN [oldest |-> oldest, buffer |-> buffer, ret |-> ret]
    ELSE IF oldest # next
         THEN read_loop(count - 1, INCREMENT(oldest, num), next, num, reports,
                        [buffer EXCEPT ![1] = reports[oldest + 1]], ret + 1)
         ELSE read_loop(count - 1, oldest, next, num, reports, buffer, ret)

\* manual measurement: _oldest_report = _next_report = 0; measure();
read_manual_keep_cursors(reports, next, oldest, num, t) ==
    measure(reports, next, oldest, num, t)

read_manual(reports, next, oldest, num, t) == measure(reports, 0, 0, num, t)

\* ssize_t read(filp, buffer, buflen), count = buflen / sizeof(accel_report).
\* The caller's buffer starts as memory no measurement has written.
Read(count, xferOk) ==
    LET buf0 == [i \in 1 .. count |-> 0] IN
    \/ /\ count < 1
       /\ last' = [NoOp("read", count) EXCEPT !.ret = -ENOSPC,
                                             !.auto = (_call_interval > 0)]
       /\ UNCHANGED << _call, _call_interval, _num_reports, _next_report,
                       _oldest_report, _reports, _accel_topic, now, npublish,
                       nnotify, restart_time, drained >>
    \/ /\ count >= 1
       /\ _call_interval > 0
       /\ LET r == read_loop(count, _oldest_report, _next_report, _num_reports,
                             _reports, buf0, 0)
          IN  /\ _oldest_report' = r.oldest
              /\ last' = [NoOp("read", count) EXCEPT
                             !.ret = IF r.ret # 0 THEN r.ret ELSE -EAGAIN,
                             !.buffer = r.buffer, !.auto = TRUE]
              /\ drained' = (drained \/ r.ret # 0)
       /\ UNCHANGED << _call, _call_interval, _num_reports, _next_report,
                       _reports, _accel_topic, now, npublish, nnotify,
                       restart_time >>
    \/ /\ count >= 1
       /\ ~(_call_interval > 0)
       /\ now < MaxTime
       /\ LET m == read_manual(_reports, _next_report, _oldest_report,
                               _num_reports, now + 1)
          IN  /\ _reports' = m.reports
              /\ _next_report' = m.next
              /\ _oldest_report' = m.oldest
              /\ _accel_topic' = m.report
              /\ last' = [NoOp("read", count) EXCEPT
                             !.ret = 1,
                             !.buffer = [buf0 EXCEPT ![1] = m.reports[1]],
                             !.ok = xferOk]
       /\ now' = now + 1
       /\ npublish' = npublish + 1
       /\ nnotify' = nnotify + 1
       /\ UNCHANGED << _call, _call_interval, _num_reports, restart_time,
                       drained >>

(* --------------------------- ioctl: poll rate -------------------------- *)
\* case SENSORIOCSPOLLRATE.  SENSOR_POLLRATE_MAX and _DEFAULT re-enter the
\* ioctl with 250, which lands in the default branch.
poll_rate_ticks_rounded_up(arg) == (UsecPerSec + arg - 1) \div arg

poll_rate_ticks(arg) == UsecPerSec \div arg

poll_rate_rejected_below_floor(ticks) == ticks < MinInterval - 1

poll_rate_rejected(ticks) == ticks < MinInterval

\* bool want_start = (_call_interval == 0);
poll_rate_always_start(interval) == TRUE

poll_rate_want_start(interval) == interval = 0

SetPollRate(arg) ==
    LET hz == IF arg \in {SENSOR_POLLRATE_MAX, SENSOR_POLLRATE_DEFAULT}
              THEN DefaultRateHz ELSE arg
    IN
    \/ /\ arg = SENSOR_POLLRATE_MANUAL
       /\ _call' = stop(_call)
       /\ _call_interval' = 0
       /\ last' = NoOp("setPollRate", arg)
       /\ UNCHANGED << _num_reports, _next_report, _oldest_report, _reports,
                       _accel_topic, now, npublish, nnotify, restart_time,
                       drained >>
    \/ /\ arg \in {SENSOR_POLLRATE_EXTERNAL, 0}
       /\ last' = [NoOp("setPollRate", arg) EXCEPT !.ret = -EINVAL]
       /\ UNCHANGED << _call, _call_interval, _num_reports, _next_report,
                       _oldest_report, _reports, _accel_topic, now, npublish,
                       nnotify, restart_time, drained >>
    \/ /\ arg \notin {SENSOR_POLLRATE_MANUAL, SENSOR_POLLRATE_EXTERNAL, 0}
       /\ LET want_start == poll_rate_want_start(_call_interval)
              ticks == poll_rate_ticks(hz)
          IN  IF poll_rate_rejected(ticks)
              THEN /\ last' = [NoOp("setPollRate", arg) EXCEPT !.ret = -EINVAL]
                   /\ UNCHANGED << _call, _call_interval, _num_reports,
                                   _next_report, _oldest_report, _reports,
                                   restart_time, drained >>
              ELSE /\ _call_interval' = ticks
                   /\ IF want_start
                      THEN /\ _call' = start_call([_call EXCEPT !.period = ticks], ticks)
                           /\ _oldest_report' = start_oldest(_oldest_report)
                           /\ _next_report' = start_next(_next_report)
                           /\ restart_time' = now
                           /\ drained' = FALSE
                      ELSE /\ _call' = [_call EXCEPT !.period = ticks]
                           /\ UNCHANGED << _oldest_report, _next_report,
                                           restart_time, drained >>
                   /\ last' = NoOp("setPollRate", arg)
                   /\ UNCHANGED << _num_reports, _reports >>
       /\ UNCHANGED << _accel_topic, now, npublish, nnotify >>

(* -------------------------- ioctl: queue depth ------------------------- *)
\* case SENSORIOCSQUEUEDEPTH.  allocOk is whether new[] returned a buffer.
\* arg++ cannot wrap for the depths tried here, all far below ULONG_MAX.
queue_depth_slots_no_sentinel(arg) == arg

queue_depth_slots(arg) == arg + 1

queue_depth_rejected_no_ceiling(slots) == slots < 2

queue_depth_rejected(slots) == (slots < 2) \/ (slots > MaxNumReports)

SetQueueDepth(arg, allocOk) ==
    LET slots == queue_depth_slots(arg) IN
    IF queue_depth_rejected(slots) \/ ~allocOk
    THEN /\ last' = [NoOp("setQueueDepth", arg) EXCEPT
                        !.ret = IF queue_depth_rejected(slots) THEN -EINVAL
                                ELSE -ENOMEM,
                        !.ok = allocOk]
         /\ UNCHANGED << _call, _call_interval, _num_reports, _next_report,
                         _oldest_report, _reports, _accel_topic, now, npublish,
                         nnotify, restart_time, drained >>
    ELSE /\ _num_reports' = slots
         /\ _reports' = NewBuffer(slots)
         /\ _call' = start_call(stop(_call), _call_interval)
         /\ _oldest_report' = start_oldest(_oldest_report)
         /\ _next_report' = start_next(_next_report)
         /\ restart_time' = now
         /\ drained' = FALSE
         /\ last' = NoOp("setQueueDepth", arg)
         /\ UNCHANGED << _call_interval, _accel_topic, now, npublish, nnotify >>

\* case SENSORIOCGQUEUEDEPTH: return _num_reports - 1;
GetQueueDepth ==
    /\ last' = [NoOp("getQueueDepth", 0) EXCEPT !.ret = _num_reports - 1]
    /\ UNCHANGED << _call, _call_interval, _num_reports, _next_report,
                    _oldest_report, _reports, _accel_topic, now, npublish,
                    nnotify, restart_time, drained >>

\* Every operation runs to its end before the next one starts.
Next ==
    \/ \E xferOk \in BOOLEAN : Tick(xferOk) /\ UNCHANGED << th, isr >>
    \/ \E count \in ReadCounts, xferOk \in BOOLEAN :
           Read(count, xferOk) /\ UNCHANGED << th, isr >>
    \/ \E arg \in PollRateArgs : SetPollRate(arg) /\ UNCHANGED << th, isr >>
    \/ \E arg \in QueueDepthArgs, allocOk \in BOOLEAN :
           SetQueueDepth(arg, allocOk) /\ UNCHANGED << th, isr >>
    \/ GetQueueDepth /\ UNCHANGED << th, isr >>

Spec == Init /\ [][Next]_vars

(* ------------------------ ioctl: get poll rate ------------------------ *)
\* case SENSORIOCGPOLLRATE: if (_call_interval == 0) return
\* SENSOR_POLLRATE_MANUAL; return 1000000 / _call_interval;
get_poll_rate(interval) ==
    IF interval = 0 THEN SENSOR_POLLRATE_MANUAL ELSE UsecPerSec \div interval

GetPollRate ==
    /\ last' = [NoOp("getPollRate", 0) EXCEPT !.ret = get_poll_rate(_call_interval)]
    /\ UNCHANGED << _call, _call_interval, _num_reports, _next_report,
                    _oldest_report, _reports, _accel_topic, now, npublish,
                    nnotify, restart_time, drained >>

\* every rate the floor admits, one above it, zero and the special codes
RateArgs == (0 .. (UsecPerSec \div MinInterval) + 1)
              \cup {SENSOR_POLLRATE_MANUAL, SENSOR_POLLRATE_EXTERNAL,
                    SENSOR_POLLRATE_MAX, SENSOR_POLLRATE_DEFAULT}

\* setting and reading back the poll rate
RateNext ==
    \/ \E arg \in RateArgs : SetPollRate(arg) /\ UNCHANGED << th, isr >>
    \/ GetPollRate /\ UNCHANGED << th, isr >>

RateSpec == Init /\ [][RateNext]_vars

(* ------------------------------- probe -------------------------------- *)
\* (void)read_reg(ADDR_WHO_AM_I); if (read_reg(ADDR_WHO_AM_I) == WHO_I_AM)
\* return OK; return -EIO;   first and second are the two bytes read back.
probe_checks_first_read(first, second) == IF first = WHO_I_AM THEN OK ELSE -EIO

probe(first, second) == IF second = WHO_I_AM THEN OK ELSE -EIO

Probe(first, second) ==
    /\ last' = [NoOp("probe", << first, second >>) EXCEPT
                   !.ret = probe(first, second)]
    /\ UNCHANGED << _call, _call_interval, _num_reports, _next_report,
                    _oldest_report, _reports, _accel_topic, now, npublish,
                    nnotify, restart_time, drained, th, isr >>

\* The state the constructor leaves, in which SPI::init() calls probe().
Constructed ==
    /\ _call = [active |-> FALSE, delay |-> 0, period |-> 0]
    /\ _call_interval = 0
    /\ _num_reports = 0
    /\ _next_report = 0
    /\ _oldest_report = 0
    /\ _reports = << >>
    /\ _accel_topic = 0
    /\ now = 0
    /\ npublish = 0
    /\ nnotify = 0
    /\ restart_time = 0
    /\ drained = FALSE
    /\ th = ThreadIdle
    /\ isr = IsrIdle
    /\ last = NoOp("construct", 0)

ProbeNext ==
    \E first \in ProbeFirstBytes, second \in ProbeSecondBytes : Probe(first, second)

ProbeSpec == Constructed /\ [][ProbeNext]_vars

(* ------------------- the same code, one access at a time --------------- *)
\* measure() runs in the timer interrupt: it preempts the thread between
\* any two of the thread's memory accesses and runs to its end before the
\* thread goes on.  The thread's steps below are single accesses to the
\* volatile cursors, to a word of a slot or to the timer entry.  A report
\* copied out by memcpy is two words, << first word, second word >>, each
\* holding the timestamp of the step that wrote it.

\* the statements of measure() in the order of the code: fill the slot
\* (lines 640-644), advance the cursors (654-658), poll_notify (661),
\* orb_publish (664)
measure_publish_before_notify(stage) ==
    CASE stage = "fill"    -> "advance"
      [] stage = "advance" -> "publish"
      [] stage = "publish" -> "notify"
      [] stage = "notify"  -> "idle"

measure_stage_after(stage) ==
    CASE stage = "fill"    -> "advance"
      [] stage = "advance" -> "notify"
      [] stage = "notify"  -> "publish"
      [] stage = "publish" -> "idle"

thread_frame == << _accel_topic, now, npublish, nnotify >>

\* the timer fires: report = &_reports[_next_report], stamp and fill it.
\* The timer takes a period-0 entry off its list when it calls it.
IsrFill(xferOk) ==
    /\ isr.pc = "idle"
    /\ _call.active
    /\ now < MaxTime
    /\ _reports' = measure(_reports, _next_report, _oldest_report,
                           _num_reports, now + 1).reports
    /\ now' = now + 1
    /\ isr' = [pc |-> measure_stage_after("fill"), slot |-> _next_report]
    /\ _call' = IF _call.period = 0 THEN stop(_call) ELSE _call
    /\ UNCHANGED << _call_interval, _num_reports, _next_report, _oldest_report,
                    _accel_topic, npublish, nnotify, restart_time, drained,
                    th, last >>

\* INCREMENT(_next_report, ...); if (_next_report == _oldest_report) INCREMENT(...)
IsrAdvance ==
    /\ isr.pc = "advance"
    /\ LET m == measure(_reports, _next_report, _oldest_report, _num_reports, now)
       IN  /\ _next_report' = m.next
           /\ _oldest_report' = m.oldest
    /\ isr' = [isr EXCEPT !.pc = measure_stage_after("advance")]
    /\ UNCHANGED << _call, _call_interval, _num_reports, _reports, _accel_topic,
                    now, npublish, nnotify, restart_time, drained, th, last >>

\* poll_notify(POLLIN)
IsrNotify ==
    /\ isr.pc = "notify"
    /\ nnotify' = nnotify + 1
    /\ isr' = [isr EXCEPT !.pc = measure_stage_after("notify")]
    /\ UNCHANGED << _call, _call_interval, _num_reports, _next_report,
                    _oldest_report, _reports, _accel_topic, now, npublish,
                    restart_time, drained, th, last >>

\* orb_publish(ORB_ID(sensor_accel), _accel_topic, report)
IsrPublish ==
    /\ isr.pc = "publish"
    /\ npublish' = npublish + 1
    /\ _accel_topic' = _reports[isr.slot + 1]
    /\ isr' = [isr EXCEPT !.pc = measure_stage_after("publish")]
    /\ UNCHANGED << _call, _call_interval, _num_reports, _next_report,
                    _oldest_report, _reports, now, nnotify, restart_time,
                    drained, th, last >>

\* a word of slot i of the ring
slot_word(i) == IF i + 1 \in DOMAIN _reports THEN _reports[i + 1] ELSE 0

\* read() in automatic mode: if (_call_interval > 0) {
RdBegin(count) ==
    /\ th.pc = "idle" /\ isr.pc = "idle"
    /\ count >= 1
    /\ _call_interval > 0
    /\ th' = [ThreadIdle EXCEPT !.pc = "rd_loop", !.op = "read", !.arg = count,
                                !.count = count,
                                !.buffer = [i \in 1 .. count |-> << 0, 0 >>]]
    /\ UNCHANGED << ring, sched, thread_frame, restart_time, drained, isr, last >>

\* while (count--) ... return ret ? ret : -EAGAIN;
RdLoop ==
    /\ th.pc = "rd_loop" /\ isr.pc = "idle"
    /\ IF th.count = 0
       THEN /\ last' = [NoOp("read", th.arg) EXCEPT
                           !.ret = IF th.ret # 0 THEN th.ret ELSE -EAGAIN,
                           !.buffer = th.buffer, !.auto = TRUE]
            /\ th' = ThreadIdle
       ELSE /\ th' = [th EXCEPT !.count = th.count - 1, !.pc = "rd_cmp_oldest"]
            /\ UNCHANGED last
    /\ UNCHANGED << ring, sched, thread_frame, restart_time, drained, isr >>

\* if (_oldest_report != _next_report): load _oldest_report
RdCmpOldest ==
    /\ th.pc = "rd_cmp_oldest" /\ isr.pc = "idle"
    /\ th' = [th EXCEPT !.reg = _oldest_report, !.pc = "rd_cmp_next"]
    /\ UNCHANGED << ring, sched, thread_frame, restart_time, drained, isr, last >>

\* ... load _next_report and compare
RdCmpNext ==
    /\ th.pc = "rd_cmp_next" /\ isr.pc = "idle"
    /\ th' = [th EXCEPT !.pc = IF th.reg # _next_report THEN "rd_addr"
                                ELSE "rd_loop"]
    /\ UNCHANGED << ring, sched, thread_frame, restart_time, drained, isr, last >>

\* memcpy(buffer, _reports + _oldest_report, ...): load _oldest_report
RdAddr ==
    /\ th.pc = "rd_addr" /\ isr.pc = "idle"
    /\ th' = [th EXCEPT !.src = _oldest_report, !.pc = "rd_copy1"]
    /\ UNCHANGED << ring, sched, thread_frame, restart_time, drained, isr, last >>

\* memcpy: the first word of the report
RdCopy1 ==
    /\ th.pc = "rd_copy1" /\ isr.pc = "idle"
    /\ th' = [th EXCEPT !.word = slot_word(th.src), !.pc = "rd_copy2"]
    /\ UNCHANGED << ring, sched, thread_frame, restart_time, drained, isr, last >>

\* memcpy: the second word of the report; ret += sizeof(_reports[0])
RdCopy2 ==
    /\ th.pc = "rd_copy2" /\ isr.pc = "idle"
    /\ th' = [th EXCEPT !.buffer[1] = << th.word, slot_word(th.src) >>,
                        !.ret = th.ret + 1, !.pc = "rd_inc_load"]
    /\ drained' = TRUE
    /\ UNCHANGED << ring, sched, thread_frame, restart_time, isr, last >>

\* INCREMENT(_oldest_report, _num_reports): _x++ loads _x ...
RdIncLoad ==
    /\ th.pc = "rd_inc_load" /\ isr.pc = "idle"
    /\ th' = [th EXCEPT !.reg = _oldest_report, !.pc = "rd_inc_store"]
    /\ UNCHANGED << ring, sched, thread_frame, restart_time, drained, isr, last >>

\* ... and stores _x + 1
RdIncStore ==
    /\ th.pc = "rd_inc_store" /\ isr.pc = "idle"
    /\ _oldest_report' = th.reg + 1
    /\ th' = [th EXCEPT !.pc = "rd_inc_cmp"]
    /\ UNCHANGED << _num_reports, _next_report, _reports, sched, thread_frame,
                    restart_time, drained, isr, last >>

\* if (_x >= _lim)
RdIncCmp ==
    /\ th.pc = "rd_inc_cmp" /\ isr.pc = "idle"
    /\ th' = [th EXCEPT !.pc = IF _oldest_report >= _num_reports
                                THEN "rd_inc_zero" ELSE "rd_loop"]
    /\ UNCHANGED << ring, sched, thread_frame, restart_time, drained, isr, last >>

\* _x = 0
RdIncZero ==
    /\ th.pc = "rd_inc_zero" /\ isr.pc = "idle"
    /\ _oldest_report' = 0
    /\ th' = [th EXCEPT !.pc = "rd_loop"]
    /\ UNCHANGED << _num_reports, _next_report, _reports, sched, thread_frame,
                    restart_time, drained, isr, last >>

\* ioctl(SENSORIOCSPOLLRATE): everything up to the call of start()
PrBegin(arg) ==
    /\ th.pc = "idle" /\ isr.pc = "idle"
    /\ LET hz == IF arg \in {SENSOR_POLLRATE_MAX, SENSOR_POLLRATE_DEFAULT}
                 THEN DefaultRateHz ELSE arg
           starts == /\ arg \notin {SENSOR_POLLRATE_MANUAL,
                                    SENSOR_POLLRATE_EXTERNAL, 0}
                     /\ ~poll_rate_rejected(poll_rate_ticks(hz))
                     /\ poll_rate_want_start(_call_interval)
       IN  IF starts
           THEN /\ _call_interval' = poll_rate_ticks(hz)
                /\ _call' = [_call EXCEPT !.period = poll_rate_ticks(hz)]
                /\ th' = [ThreadIdle EXCEPT !.pc = "start_stop",
                                            !.op = "setPollRate", !.arg = arg]
                /\ UNCHANGED << ring, thread_frame, restart_time, drained,
                                last >>
           ELSE SetPollRate(arg) /\ UNCHANGED th
    /\ UNCHANGED isr

\* ioctl(SENSORIOCSQUEUEDEPTH): the range check and the allocation
QdBegin(arg, allocOk) ==
    /\ th.pc = "idle" /\ isr.pc = "idle"
    /\ IF queue_depth_rejected(queue_depth_slots(arg)) \/ ~allocOk
       THEN SetQueueDepth(arg, allocOk) /\ UNCHANGED th
       ELSE /\ th' = [ThreadIdle EXCEPT !.pc = "qd_stop",
                                        !.op = "setQueueDepth", !.arg = arg]
            /\ UNCHANGED << ring, sched, thread_frame, restart_time, drained,
                            last >>
    /\ UNCHANGED isr

\* stop();
QdStop ==
    /\ th.pc = "qd_stop" /\ isr.pc = "idle"
    /\ _call' = stop(_call)
    /\ th' = [th EXCEPT !.pc = "qd_free"]
    /\ UNCHANGED << ring, _call_interval, thread_frame, restart_time, drained,
                    isr, last >>

\* delete[] _reports;  the pointer is left without a slot behind it
QdFree ==
    /\ th.pc = "qd_free" /\ isr.pc = "idle"
    /\ _reports' = << >>
    /\ th' = [th EXCEPT !.pc = "qd_num"]
    /\ UNCHANGED << _num_reports, _next_report, _oldest_report, sched,
                    thread_frame, restart_time, drained, isr, last >>

\* _num_reports = arg;
QdNum ==
    /\ th.pc = "qd_num" /\ isr.pc = "idle"
    /\ _num_reports' = queue_depth_slots(th.arg)
    /\ th' = [th EXCEPT !.pc = "qd_buf"]
    /\ UNCHANGED << _reports, _next_report, _oldest_report, sched,
                    thread_frame, restart_time, drained, isr, last >>

\* _reports = buf; start();
QdBuf ==
    /\ th.pc = "qd_buf" /\ isr.pc = "idle"
    /\ _reports' = NewBuffer(_num_reports)
    /\ th' = [th EXCEPT !.pc = "start_stop"]
    /\ UNCHANGED << _num_reports, _next_report, _oldest_report, sched,
                    thread_frame, restart_time, drained, isr, last >>

\* start(): stop();
StartStop ==
    /\ th.pc = "start_stop" /\ isr.pc = "idle"
    /\ _call' = stop(_call)
    /\ th' = [th EXCEPT !.pc = "start_next"]
    /\ UNCHANGED << ring, _call_interval, thread_frame, restart_time, drained,
                    isr, last >>

\* _oldest_report = _next_report = 0;  the right-hand assignment comes first
StartResetNext ==
    /\ th.pc = "start_next" /\ isr.pc = "idle"
    /\ _next_report' = start_next(_next_report)
    /\ th' = [th EXCEPT !.pc = "start_oldest"]
    /\ UNCHANGED << _num_reports, _oldest_report, _reports, sched,
                    thread_frame, restart_time, drained, isr, last >>

StartResetOldest ==
    /\ th.pc = "start_oldest" /\ isr.pc = "idle"
    /\ _oldest_report' = start_oldest(_oldest_report)
    /\ th' = [th EXCEPT !.pc = "start_arm"]
    /\ UNCHANGED << _num_reports, _next_report, _reports, sched,
                    thread_frame, restart_time, drained, isr, last >>

\* hrt_call_every(...); and the ioctl returns OK
StartArm ==
    /\ th.pc = "start_arm" /\ isr.pc = "idle"
    /\ _call' = hrt_call_every(_call, StartDelay, _call_interval)
    /\ restart_time' = now
    /\ drained' = FALSE
    /\ last' = NoOp(th.op, th.arg)
    /\ th' = ThreadIdle
    /\ UNCHANGED << ring, _call_interval, thread_frame, isr >>

RaceNext ==
    \/ \E xferOk \in BOOLEAN : IsrFill(xferOk)
    \/ IsrAdvance
    \/ IsrNotify
    \/ IsrPublish
    \/ \E count \in RaceReadCounts : RdBegin(count)
    \/ RdLoop
    \/ RdCmpOldest
    \/ RdCmpNext
    \/ RdAddr
    \/ RdCopy1
    \/ RdCopy2
    \/ RdIncLoad
    \/ RdIncStore
    \/ RdIncCmp
    \/ RdIncZero
    \/ \E arg \in RacePollRateArgs : PrBegin(arg)
    \/ \E arg \in RaceDepthArgs, allocOk \in BOOLEAN : QdBegin(arg, allocOk)
    \/ QdStop
    \/ QdFree
    \/ QdNum
    \/ QdBuf
    \/ StartStop
    \/ StartResetNext
    \/ StartResetOldest
    \/ StartArm

SpecRace == Init /\ [][RaceNext]_vars

(* ============================ properties ============================== *)
Min(a, b) == IF a < b THEN a ELSE b

\* number of unread reports as the cursors give it
Unread == (_next_report - _oldest_report + _num_reports) % _num_reports

\* the unread reports, oldest first
UnreadSeq ==
    [i \in 1 .. Unread |-> _reports[((_oldest_report + i - 1) % _num_reports) + 1]]

\* a step that is a restart: stop() followed by start()
Restarted ==
    \/ last'.op = "setQueueDepth" /\ last'.ret = OK
    \/ last'.op = "setPollRate" /\ last'.ret = OK
         /\ _call_interval = 0 /\ _call_interval' > 0

AutoRead == last'.op = "read" /\ last'.arg >= 1 /\ _call_interval > 0
ManualRead == last'.op = "read" /\ last'.arg >= 1 /\ _call_interval = 0

\* one fresh synchronous measurement, handed back as the only report
SingleShot ==
    /\ now' = now + 1
    /\ npublish' = npublish + 1
    /\ last'.ret = 1
    /\ last'.buffer[1] = now'
    /\ _accel_topic' = now'

\* C1: after init and any sequence of ticks, reads and control operations,
\* both cursors index a slot of the ring and the number of unread reports,
\* which is what a read with room to spare drains, is at most N - 1.
C1_UnreadAtMostCapacityMinusOne ==
    /\ _next_report \in 0 .. _num_reports - 1
    /\ _oldest_report \in 0 .. _num_reports - 1
    /\ Unread <= _num_reports - 1
    /\ read_loop(_num_reports + 1, _oldest_report, _next_report, _num_reports,
                 _reports, << 0 >>, 0).ret = Unread

\* a tick has filled a four-slot ring and dropped the oldest report
C1_Witness ==
    /\ last.op = "tick"
    /\ _num_reports = 4
    /\ Unread = 3
    /\ ~drained
    /\ now - restart_time > 3

\* C2: an automatic-mode read(maxReports) returns the oldest
\* min(maxReports, unread) unread reports in production order, removes
\* exactly those and leaves the rest to later reads.
C2_ReadReturnsOldestInOrder ==
    [][ AutoRead =>
          LET k == Min(last'.arg, Unread)
          IN  /\ k = 0 => last'.ret = -EAGAIN
              /\ k > 0 => /\ last'.ret = k
                          /\ SubSeq(last'.buffer, 1, k) = SubSeq(UnreadSeq, 1, k)
              /\ UnreadSeq' = SubSeq(UnreadSeq, k + 1, Unread) ]_vars

\* C3: after a restart, k >= N-1 ticks and no read, a read with room for
\* N-1 reports returns exactly the N-1 most recent reports, oldest first.
C3_ReadAfterOverflowReturnsNewest ==
    [][ ( /\ AutoRead
          /\ ~drained
          /\ now - restart_time >= _num_reports - 1
          /\ last'.arg >= _num_reports - 1 )
        => /\ last'.ret = _num_reports - 1
           /\ SubSeq(last'.buffer, 1, _num_reports - 1)
                = [i \in 1 .. _num_reports - 1 |-> now - (_num_reports - 1) + i]
      ]_vars

\* C4: setPollRate(MANUAL) puts the driver in manual mode, and every read
\* in manual mode with room for a report runs the measurement step once and
\* returns one report, the one that step produced.
C4_ManualReadIsFresh ==
    [][ /\ (last'.op = "setPollRate" /\ last'.arg = SENSOR_POLLRATE_MANUAL)
            => (last'.ret = OK /\ _call_interval' = 0)
        /\ ManualRead => (SingleShot /\ \A i \in 1 .. _num_reports :
                                           _reports[i] < last'.buffer[1])
      ]_vars

\* a manual read that came after automatic sampling had filled slots
C4_Witness ==
    /\ last.op = "read"
    /\ last.ret = 1
    /\ _call_interval = 0
    /\ _call.period > 0
    /\ last.buffer[1] = now
    /\ \E i \in 2 .. _num_reports : _reports[i] > 0

\* C5: the timer registration is active exactly when the interval is > 0.
C5_TimerActiveIffIntervalPositive ==
    _call.active <=> (_call_interval > 0)

\* C6: a tick whose bus transfer fails writes no report: cursors, slots and
\* the published report stay as they were.
C6_FailedTransferWritesNothing ==
    [][ (last'.op = "tick" /\ ~last'.ok)
        => UNCHANGED << _next_report, _oldest_report, _reports, _accel_topic,
                        npublish >> ]_vars

\* C7 as stated: setPollRate(MANUAL) and setPollRate(0) both succeed and
\* stop the scheduler.
C7_ManualAndZeroStop ==
    [][ (last'.op = "setPollRate" /\ last'.arg \in {SENSOR_POLLRATE_MANUAL, 0})
        => (last'.ret = OK /\ ~_call'.active /\ _call_interval' = 0) ]_vars

\* C7 amended: setPollRate(MANUAL) succeeds and stops the scheduler;
\* setPollRate(0) is refused and changes nothing; manual mode lasts until a
\* poll rate is set successfully, and every read in it is single-shot.
C7_ManualStopsZeroRefused ==
    [][ /\ (last'.op = "setPollRate" /\ last'.arg = SENSOR_POLLRATE_MANUAL)
            => (last'.ret = OK /\ ~_call'.active /\ _call_interval' = 0)
        /\ (last'.op = "setPollRate" /\ last'.arg = 0)
            => (last'.ret = -EINVAL /\ UNCHANGED << sched, ring >>)
        /\ (_call_interval = 0 /\ _call_interval' # 0)
            => (last'.op = "setPollRate" /\ last'.ret = OK)
        /\ ManualRead => SingleShot
      ]_vars

\* a single-shot read after setPollRate(MANUAL) cancelled a running timer
C7_Witness ==
    /\ last.op = "read"
    /\ last.ret = 1
    /\ _call_interval = 0
    /\ ~_call.active
    /\ _call.period > 0

\* C8: a numeric rate above 1000 Hz is refused with EINVAL and leaves the
\* interval, the timer entry and the ring as they were.
C8_RateAboveMaximumRejected ==
    [][ ( /\ last'.op = "setPollRate"
          /\ last'.arg \notin {SENSOR_POLLRATE_MANUAL, SENSOR_POLLRATE_EXTERNAL,
                               SENSOR_POLLRATE_MAX, SENSOR_POLLRATE_DEFAULT}
          /\ last'.arg > 1000 )
        => (last'.ret = -EINVAL /\ UNCHANGED << sched, ring >>) ]_vars

\* 1001 Hz refused while sampling runs and reports wait in the ring
C8_Witness ==
    /\ last.op = "setPollRate"
    /\ last.arg = 1001
    /\ last.ret = -EINVAL
    /\ _call.active
    /\ _call_interval > 0
    /\ Unread > 0

\* C9: setQueueDepth fails with EINVAL when n+1 is outside 2..100 and with
\* ENOMEM when the allocation fails, and a failed call leaves capacity,
\* cursors, slots, interval and timer entry as they were.
C9_FailedQueueDepthChangesNothing ==
    [][ last'.op = "setQueueDepth" =>
          /\ (last'.arg + 1 < 2 \/ last'.arg + 1 > 100) => last'.ret = -EINVAL
          /\ (last'.arg + 1 \in 2 .. 100 /\ ~last'.ok) => last'.ret = -ENOMEM
          /\ last'.ret # OK => UNCHANGED << sched, ring >>
      ]_vars

\* a refused depth of 100 while sampling runs and reports wait in the ring
C9_Witness ==
    /\ last.op = "setQueueDepth"
    /\ last.arg = 100
    /\ last.ret = -EINVAL
    /\ _call.active
    /\ Unread > 0

\* C10: a restart leaves both cursors at zero, and an automatic-mode read
\* never returns a report produced before the last restart.
C10_RestartDropsStaleReports ==
    [][ /\ Restarted => (_next_report' = 0 /\ _oldest_report' = 0)
        /\ (AutoRead /\ last'.ret > 0) => last'.buffer[1] > restart_time
      ]_vars

\* a read returns a report although older reports were left in the slots
\* by sampling before the restart
C10_Witness ==
    /\ last.op = "read"
    /\ last.auto
    /\ last.ret > 0
    /\ restart_time > 0
    /\ \E i \in 1 .. _num_reports : _reports[i] > 0 /\ _reports[i] <= restart_time

\* C11: in automatic mode a read on an empty ring returns EAGAIN at once,
\* measures nothing and leaves cursors, slots and scheduler as they were.
C11_EmptyAutoReadWouldBlock ==
    [][ (AutoRead /\ _oldest_report = _next_report)
        => /\ last'.ret = -EAGAIN
           /\ UNCHANGED << ring, sched, now, npublish, nnotify, _accel_topic >>
      ]_vars

\* a read finds the ring empty after earlier reads drained what was sampled
C11_Witness ==
    /\ last.op = "read"
    /\ last.auto
    /\ last.arg >= 1
    /\ last.ret = -EAGAIN
    /\ drained
    /\ _call.active

C18_ManualReadBypassesRing ==
    [][ ManualRead => UNCHANGED << _next_report, _oldest_report, _reports >>
      ]_vars

\* C18 amended: a manual-mode read goes through the ring: it puts the new
\* report in slot 0, leaves the write cursor at 1 and the read cursor at 0,
\* leaves the other slots alone and returns the report of slot 0.
C18_ManualReadUsesSlotZero ==
    [][ ManualRead =>
          /\ _reports' = [_reports EXCEPT ![1] = now']
          /\ now' = now + 1
          /\ _next_report' = 1
          /\ _oldest_report' = 0
          /\ last'.buffer[1] = _reports'[1]
      ]_vars

\* a manual read on a four-slot ring whose cursors automatic sampling had
\* moved on
C18_Witness ==
    /\ last.op = "read"
    /\ last.ret = 1
    /\ _call_interval = 0
    /\ _num_reports = 4
    /\ _next_report = 1
    /\ _oldest_report = 0
    /\ _reports[1] = now
    /\ _reports[3] > 0

\* C20: setPollRate with a valid rate while sampling runs changes only the
\* interval and the period of the timer entry: the entry stays registered
\* as it was, and cursors and slots are untouched.
C20_RateChangeWhileRunningKeepsRing ==
    [][ ( /\ last'.op = "setPollRate"
          /\ last'.ret = OK
          /\ last'.arg # SENSOR_POLLRATE_MANUAL
          /\ _call_interval > 0 )
        => /\ _call_interval' > 0
           /\ _call' = [_call EXCEPT !.period = _call_interval']
           /\ _call'.active
           /\ UNCHANGED << ring, restart_time >>
      ]_vars

\* the rate was set to 1000 Hz while reports sampled before wait unread
C20_Witness ==
    /\ last.op = "setPollRate"
    /\ last.arg = 1000
    /\ last.ret = OK
    /\ _call_interval = MinInterval
    /\ _call.active
    /\ Unread > 0
    /\ now > restart_time

\* C14: probe() succeeds exactly when the second byte read is 0x49,
\* whatever the first byte was; every other second byte gives failure.
C14_ProbeAcceptsOnlyIdentity ==
    last.op = "probe" =>
        /\ (last.ret = OK) <=> (last.arg[2] = 73)
        /\ (last.ret # OK) => (last.ret = -EIO)
        /\ last.arg[2] \in {0, 255} => last.ret = -EIO

\* the first read gave the no-response pattern and the second the identity
C14_Witness ==
    /\ last.op = "probe"
    /\ last.arg = << 255, 73 >>
    /\ last.ret = OK

\* the thread is between the stop() of a restart and the re-registration
InRestartWindow ==
    \/ th.op = "setQueueDepth"
         /\ th.pc \in {"qd_free", "qd_num", "qd_buf", "start_stop",
                       "start_next", "start_oldest", "start_arm"}
    \/ th.op = "setPollRate"
         /\ th.pc \in {"start_next", "start_oldest", "start_arm"}

CursorsInRange ==
    /\ _next_report \in 0 .. _num_reports - 1
    /\ _oldest_report \in 0 .. _num_reports - 1

\* C12: with ticks preempting read() between its memory accesses, every
\* report read() returns is a whole copy of the report of one measurement
\* step: both of its words come from the same step.
C12_ReturnedReportIsNeverTorn ==
    (last.op = "read" /\ last.auto /\ last.ret > 0)
        => last.buffer[1][1] = last.buffer[1][2]

\* C13: from the stop() of setQueueDepth or of a restart until the timer is
\* registered again the timer is off and no measurement step runs, and the
\* timer is only ever registered with buffer, capacity and zeroed cursors
\* all in place, so a tick never sees a mix of old and new ring state.
C13_NoTickInsideRestart ==
    [][ /\ InRestartWindow' => (~_call'.active /\ isr'.pc = "idle")
        /\ (_call'.active \/ isr'.pc # "idle") => Len(_reports') = _num_reports'
        /\ (~_call.active /\ _call'.active)
            => (_next_report' = 0 /\ _oldest_report' = 0
                  /\ Len(_reports') = _num_reports')
      ]_vars

\* setQueueDepth has stopped a running timer and set the new capacity, the
\* new buffer is not in place yet
C13_Witness ==
    /\ th.op = "setQueueDepth"
    /\ th.pc = "qd_buf"
    /\ _call.period > 0
    /\ _call_interval > 0
    /\ Len(_reports) # _num_reports
    /\ _next_report > 0

\* C16: once a read that ticks preempted has completed, the ring holds
\* exactly the most recent reports not yet returned, up to N-1 of them: the
\* reader's cursor update neither undoes nor repeats the writer's advance
\* and the ring is not empty while such reports exist.
C16_RingHoldsNewestUnreturned ==
    (last.op = "read" /\ last.auto /\ last.ret > 0
        /\ th.pc = "idle" /\ isr.pc = "idle")
    => /\ CursorsInRange
       /\ LET k == Min(_num_reports - 1, now - last.buffer[1][1])
          IN  UnreadSeq = [i \in 1 .. k |-> now - k + i]

\* C17: whenever a tick can run, both cursors hold a value in 0..N-1.
C17_CursorsAlwaysInRange ==
    (_call.active \/ isr.pc # "idle") => CursorsInRange

\* C19: a measurement step fills the slot at the write cursor, then
\* advances the cursors, then signals data-available once, then publishes
\* once the report of that slot; after the step both counts equal the
\* number of steps.
C19_MeasureStepOrder ==
    [][ /\ (isr.pc = "idle" /\ isr'.pc # "idle")
            => /\ now' = now + 1
               /\ _reports' = [_reports EXCEPT ![_next_report + 1] = now']
               /\ isr'.slot = _next_report
               /\ UNCHANGED << _next_report, _oldest_report, nnotify,
                               npublish, _accel_topic >>
        /\ (isr.pc # "idle" /\ _next_report' # _next_report)
            => /\ _reports[_next_report + 1] = now
               /\ _next_report' = (_next_report + 1) % _num_reports
               /\ _oldest_report' =
                     IF _next_report' = _oldest_report
                     THEN (_oldest_report + 1) % _num_reports
                     ELSE _oldest_report
               /\ nnotify = now - 1 /\ npublish = now - 1
               /\ UNCHANGED << nnotify, npublish, _accel_topic, _reports >>
        /\ nnotify' # nnotify
            => /\ nnotify' = nnotify + 1
               /\ nnotify' = now
               /\ _next_report = (isr.slot + 1) % _num_reports
               /\ npublish = now - 1
               /\ UNCHANGED << npublish, _accel_topic, ring >>
        /\ npublish' # npublish
            => /\ npublish' = npublish + 1
               /\ npublish' = now
               /\ nnotify = now
               /\ _accel_topic' = _reports[isr.slot + 1]
               /\ _accel_topic' = now
               /\ UNCHANGED << nnotify, ring >>
        /\ (isr.pc # "idle" /\ isr'.pc = "idle")
            => (nnotify' = now' /\ npublish' = now')
      ]_vars

\* a step has published its report after overwriting the oldest one in a
\* two-slot ring
C19_Witness ==
    /\ isr.pc = "idle"
    /\ _call_interval > 0
    /\ _num_reports = 2
    /\ now - restart_time >= 2
    /\ npublish = now
    /\ nnotify = now
    /\ _accel_topic = now
    /\ Unread = 1

\* C21: setPollRate(rateHz) succeeds for every rateHz in 1..1000 and
\* getPollRate() right after it returns rateHz; right after
\* setPollRate(DEFAULT) it returns 250 and right after setPollRate(MANUAL)
\* it returns MANUAL.
C21_PollRateRoundTrip ==
    [][ /\ (last'.op = "setPollRate" /\ last'.arg \in 1 .. 1000)
            => last'.ret = OK
        /\ (last.op = "setPollRate" /\ last.ret = OK
              /\ last'.op = "getPollRate")
            => /\ last.arg \in 1 .. 1000 => last'.ret = last.arg
               /\ last.arg = SENSOR_POLLRATE_DEFAULT => last'.ret = 250
               /\ last.arg = SENSOR_POLLRATE_MANUAL
                     => last'.ret = SENSOR_POLLRATE_MANUAL
      ]_vars

\* 999 Hz, whose interval of 1001 microseconds is not an exact quotient,
\* is read back as 999
C21_Witness ==
    /\ last.op = "getPollRate"
    /\ last.ret = 999
    /\ _call_interval = 1001
    /\ _call.period = 1001
    /\ _call.active
====
